---- MODULE Spec2Model ----
(***************************************************************************)
(* A model of ffmpeg_converter (src/src/main.rs): the Converter that walks *)
(* a directory in parallel, hands every matched regular file to ffmpeg,    *)
(* deletes the source on success and counts outcomes in two AtomicU16      *)
(* counters.                                                               *)
(*                                                                         *)
(* A path is a sequence of tokens; the token "." is the dot of a file      *)
(* name, every other token is a dot-free piece of the name.  All entries   *)
(* live in the target directory, whose own path is the empty sequence.     *)
(***************************************************************************)
EXTENDS Integers, Sequences, FiniteSets, TLC

\* ------------------------------------------------------------------ bounds
NumThreads == 2
MaxEntries == 3
BulkFiles == 65536

\* ------------------------------------------------------- program constants
CounterBits == 16

VARIABLES
    args,        \* Converter.args: dry_run, preserve_files, inputs, output
    tree,        \* the entries of the target directory when the walk reads it
    fs,          \* the regular files on disk (paths)
    phase,       \* position of Converter::run
    pending,     \* entries the walker has discovered and not yet yielded
    bulk,        \* further matched regular files of the tree, not named one by one
    quit_now,    \* the walker's stop flag, set when a callback returns Quit
    pc,          \* per worker thread: idle, running (blocked on ffmpeg), stopped
    cur,         \* per worker thread: the path whose ffmpeg process is in flight
    ok_count,    \* Converter.ok_count
    err_count,   \* Converter.err_count
    summary,     \* the two numbers printed at the end of run, or <<>>
    hist,        \* per entry: what the run did with it (history)
    run,         \* 1 in the first run of the tool, 2 in a second run over the same directory
    first        \* in a second run: exit status, removals and outcome of the first run

vars == <<run, first, args, tree, fs, phase, pending, bulk, quit_now, pc, cur,
          ok_count, err_count, summary, hist>>

Workers == 1..NumThreads

\* ------------------------------------------------------------ input domain
Root == [path |-> <<>>, kind |-> "dir"]

\* The entries a target directory is drawn from.  kind is what the walker
\* reports for the entry: a regular file, a directory, an entry without a file
\* type, an entry carrying an error, or an error yielded instead of an entry.
\* The file <<".", "mp3">> is the hidden file ".mp3": the glob "*.mp3" matches
\* it and it has no extension.
Universe ==
    { [path |-> <<"a", ".", "mp3">>,  kind |-> "file"],
      [path |-> <<".", "mp3">>,       kind |-> "file"],
      [path |-> <<"a", ".", "wav">>,  kind |-> "file"],
      [path |-> <<"a", ".", "opus">>, kind |-> "file"],
      [path |-> <<"c", ".", "txt">>,  kind |-> "file"],
      [path |-> <<"d">>,              kind |-> "dir"],
      [path |-> <<"n", ".", "mp3">>,  kind |-> "no_type"],
      [path |-> <<"e", ".", "mp3">>,  kind |-> "entry_err"],
      [path |-> <<"u">>,              kind |-> "walk_err"] }

Paths == {e.path : e \in Universe \cup {Root}}

InputSets == { {"mp3"}, {"mp3", "wav"}, {"mp3", "opus"}, {"all"} }
Outputs == {"opus", "mp3"}

ArgsDomain ==
    [dry_run : BOOLEAN, preserve_files : BOOLEAN, inputs : InputSets, output : Outputs]

Trees == {t \in SUBSET Universe : Cardinality(t) <= MaxEntries}

\* --------------------------------------------------------- pure functions

\* AtomicU16::fetch_add(1, Relaxed): one atomic step, wrapping at the width.
fetch_add(v) == (v + 1) % (2 ^ CounterBits)

\* TypesBuilder::add rejects the name "all" (and any name that is not
\* alphanumeric; every other token of the model is alphanumeric).
valid_type(input) == input # "all"

\* The glob "*.<input>" against a file name.
glob_match(input, name) ==
    /\ Len(name) >= 2
    /\ name[Len(name) - 1] = "."
    /\ name[Len(name)] = input

\* The walker's type filter: directories pass, anything else must match one of
\* the selected globs.  An Err has no entry to filter.
passes_filter(e) ==
    \/ e.kind \in {"dir", "walk_err"}
    \/ \E input \in args.inputs : glob_match(input, e.path)

\* Position of the dot that starts the extension of a file name: the last dot,
\* unless it is the first character; 0 when the name has no extension.
ext_dot(name) ==
    LET dots == {i \in 2..Len(name) : name[i] = "."}
    IN  IF dots = {} THEN 0 ELSE CHOOSE i \in dots : \A j \in dots : j <= i

\* A with_extension that appends the extension instead of replacing it.
with_extension_append(path, ext) == path \o <<".", ext>>

\* Path::with_file_name in place of with_extension: the whole file name is
\* replaced.
with_file_name(path, ext) == <<ext>>

\* Path::with_extension
with_extension(path, ext) ==
    LET d == ext_dot(path)
        stem == IF d = 0 THEN path ELSE SubSeq(path, 1, d - 1)
    IN  stem \o <<".", ext>>

\* The regular files of the tree: the files on disk when the run starts.
InitialFs == {e.path : e \in {x \in tree : x.kind = "file"}}

\* late: the outcome of the entry's ffmpeg process came after a callback had
\* returned Quit.
NoHist ==
    [visits |-> 0, invoked |-> 0, spawned |-> 0, status |-> "none",
     removed |-> 0, outcome |-> "none", walkState |-> "none", late |-> FALSE]

\* ------------------------------------------------------------------- Init
\* Converter::new: both counters at their default 0, nothing walked yet.
Init ==
    /\ args \in ArgsDomain
    /\ tree \in Trees
    /\ fs = InitialFs
    /\ phase = "start"
    /\ pending = {}
    /\ bulk = 0
    /\ quit_now = FALSE
    /\ pc = [w \in Workers |-> "idle"]
    /\ cur = [w \in Workers |-> <<>>]
    /\ ok_count = 0
    /\ err_count = 0
    /\ summary = <<>>
    /\ hist = [p \in Paths |-> NoHist]
    /\ run = 1
    /\ first = <<>>

\* ---------------------------------------------------------------- actions

\* A run that walks even when build_walker failed.
BuildWalkerUnchecked ==
    /\ phase = "start"
    /\ phase' = "walking"
    /\ pending' = {Root}
    /\ UNCHANGED <<run, first, args, tree, fs, bulk, quit_now, pc, cur, ok_count, err_count,
                   summary, hist>>

\* run, up to walker.run: build_walker fails when a type cannot be added, and
\* run returns the error before anything is walked.
BuildWalker ==
    /\ phase = "start"
    /\ IF \A input \in args.inputs : valid_type(input)
       THEN /\ phase' = "walking"
            /\ pending' = {Root}
       ELSE /\ phase' = "failed"
            /\ pending' = {}
    /\ UNCHANGED <<run, first, args, tree, fs, bulk, quit_now, pc, cur, ok_count, err_count,
                   summary, hist>>

\* The three ways a callback invocation ends, as the new counter values and the
\* WalkState it returns.
\* An Ok arm that also bumps the error counter.
ok_arm_both == [ok |-> fetch_add(ok_count), err |-> fetch_add(err_count), ws |-> "Continue"]

ok_arm == [ok |-> fetch_add(ok_count), err |-> err_count, ws |-> "Continue"]

\* A skip arm that counts the skipped entry as converted.
skip_arm_counted == [ok |-> fetch_add(ok_count), err |-> err_count, ws |-> "Continue"]

skip_arm == [ok |-> ok_count, err |-> err_count, ws |-> "Continue"]

\* A handle_error that counts the error in the converted counter.
handle_error_wrong_counter == [ok |-> fetch_add(ok_count), err |-> err_count, ws |-> "Quit"]

\* A handle_error that counts the error and lets the walk go on.
handle_error_continue == [ok |-> ok_count, err |-> fetch_add(err_count), ws |-> "Continue"]

\* A handle_error that forgets the increment.
handle_error_uncounted == [ok |-> ok_count, err |-> err_count, ws |-> "Quit"]

handle_error == [ok |-> ok_count, err |-> fetch_add(err_count), ws |-> "Quit"]

\* The callback of worker w returns r: the counters take their new values and
\* the walker stops every worker once a callback has returned Quit.
Returns(w, r) ==
    /\ ok_count' = r.ok
    /\ err_count' = r.err
    /\ quit_now' = (quit_now \/ r.ws = "Quit")
    /\ pc' = [pc EXCEPT ![w] = IF r.ws = "Quit" THEN "stopped" ELSE "idle"]

\* A walker that leaves a yielded entry in the work queue.
YieldedKept(e) == pending

\* The walker hands out each discovered entry once: a yielded entry leaves the
\* work queue.
Yielded(e) == pending \ {e}

\* The entries the walker pushes after the callback let it descend into e.
Children(e) == IF e = Root THEN {c \in tree : passes_filter(c)} ELSE {}

\* A try_convert_path that does not look at dry_run.
try_convert_path_begin_live(spawn_ok) ==
    IF spawn_ok THEN "blocked" ELSE "spawn_failed"

\* try_convert_path up to command.output(): the dry-run branch returns Ok
\* at once, the live branch spawns ffmpeg (which can fail) and blocks.
\* Yields the outcome, or "blocked" when the process is in flight.
try_convert_path_begin(spawn_ok) ==
    IF args.dry_run THEN "converted"
    ELSE IF spawn_ok THEN "blocked"
    ELSE "spawn_failed"

\* A try_convert_entry that treats a missing file type like a regular file.
try_convert_entry_begin_untyped(e, spawn_ok) ==
    IF e.kind = "entry_err" THEN "trav_error"
    ELSE IF e.kind = "dir" THEN "skipped"
    ELSE try_convert_path_begin(spawn_ok)

\* try_convert_entry up to the first point where it blocks or returns.
try_convert_entry_begin(e, spawn_ok) ==
    IF e.kind = "entry_err" THEN "trav_error"
    ELSE IF e.kind = "no_type" THEN "trav_error"
    ELSE IF e.kind # "file" THEN "skipped"
    ELSE try_convert_path_begin(spawn_ok)

\* The closure given to walker.run.
callback_begin(e, spawn_ok) ==
    IF e.kind = "walk_err" THEN "trav_error"
    ELSE try_convert_entry_begin(e, spawn_ok)

\* What the callback returns for an outcome.
arm_of(out) ==
    IF out = "converted" THEN ok_arm
    ELSE IF out = "skipped" THEN skip_arm
    ELSE handle_error

\* The walker yields entry e to idle worker w, which runs the callback on it.
Visit(w, e, spawn_ok) ==
    LET out == callback_begin(e, spawn_ok)
        p == e.path
        called == out \in {"converted", "blocked", "spawn_failed"}
        h == hist[p]
    IN  /\ phase = "walking"
        /\ pc[w] = "idle"
        /\ ~quit_now
        /\ e \in pending
        /\ IF out = "blocked"
           THEN /\ pc' = [pc EXCEPT ![w] = "running"]
                /\ cur' = [cur EXCEPT ![w] = p]
                /\ pending' = Yielded(e)
                /\ hist' = [hist EXCEPT ![p] =
                       [h EXCEPT !.visits = @ + 1, !.invoked = @ + 1, !.spawned = @ + 1]]
                /\ UNCHANGED <<ok_count, err_count, quit_now>>
           ELSE /\ Returns(w, arm_of(out))
                /\ pending' = Yielded(e) \cup
                       (IF arm_of(out).ws = "Continue" THEN Children(e) ELSE {})
                /\ hist' = [hist EXCEPT ![p] =
                       [h EXCEPT !.visits = @ + 1,
                                 !.invoked = IF called THEN @ + 1 ELSE @,
                                 !.outcome = out,
                                 !.walkState = arm_of(out).ws]]
                /\ UNCHANGED cur
        /\ UNCHANGED <<run, first, args, tree, fs, phase, bulk, summary>>

\* try_convert_path after command.output() returned: ffmpeg exited with
\* success or not (having written its output file, or possibly a partial one),
\* the source is removed on success unless preserve_files, and remove_file can
\* fail.
\* A cleanup whose remove_file error is dropped.
process_outcome_rm_ignored(p, success, rm_ok) ==
    IF ~success THEN "exit_failed" ELSE "converted"

process_outcome(p, success, rm_ok) ==
    IF ~success THEN "exit_failed"
    ELSE IF args.preserve_files THEN "converted"
    ELSE IF rm_ok /\ p \in fs THEN "converted"
    ELSE "remove_failed"

\* A cleanup that does not look at the exit status.
removes_source_any_exit(p, success, rm_ok) ==
    ~args.preserve_files /\ rm_ok /\ p \in fs

\* A cleanup that never removes the source.
removes_source_never(p, success, rm_ok) == FALSE

removes_source(p, success, rm_ok) ==
    success /\ ~args.preserve_files /\ rm_ok /\ p \in fs

ProcessExit(w, success, wrote, rm_ok) ==
    LET p == cur[w]
        out == process_outcome(p, success, rm_ok)
        outfile == with_extension(p, args.output)
        written == IF success \/ wrote THEN fs \cup {outfile} ELSE fs
        h == hist[p]
    IN  /\ phase = "walking"
        /\ pc[w] = "running"
        /\ fs' = IF removes_source(p, success, rm_ok) THEN written \ {p} ELSE written
        /\ Returns(w, arm_of(out))
        /\ cur' = [cur EXCEPT ![w] = <<>>]
        /\ hist' = [hist EXCEPT ![p] =
               [h EXCEPT !.status = IF success THEN "success" ELSE "failure",
                         !.removed = IF removes_source(p, success, rm_ok) THEN @ + 1 ELSE @,
                         !.late = quit_now,
                         !.outcome = out,
                         !.walkState = arm_of(out).ws]]
        /\ UNCHANGED <<run, first, args, tree, phase, pending, bulk, summary>>

\* A worker that waits for work without looking at the stop flag.
WorkerExitNoQuit(w) ==
    /\ phase = "walking"
    /\ pc[w] = "idle"
    /\ pending = {} /\ bulk = 0 /\ \A v \in Workers : pc[v] # "running"
    /\ pc' = [pc EXCEPT ![w] = "stopped"]
    /\ UNCHANGED <<run, first, args, tree, fs, phase, pending, bulk, quit_now, cur,
                   ok_count, err_count, summary, hist>>

\* A worker leaves the walk: the stop flag is set, or no work is left and no
\* worker is busy.
WorkerExit(w) ==
    /\ phase = "walking"
    /\ pc[w] = "idle"
    /\ \/ quit_now
       \/ pending = {} /\ bulk = 0 /\ \A v \in Workers : pc[v] # "running"
    /\ pc' = [pc EXCEPT ![w] = "stopped"]
    /\ UNCHANGED <<run, first, args, tree, fs, phase, pending, bulk, quit_now, cur,
                   ok_count, err_count, summary, hist>>

\* A summary printed as soon as the stop flag is seen, without joining.
SummaryEarly ==
    /\ phase = "walking"
    /\ quit_now \/ \A w \in Workers : pc[w] = "stopped"
    /\ phase' = "done"
    /\ summary' = <<ok_count, err_count>>
    /\ UNCHANGED <<run, first, args, tree, fs, pending, bulk, quit_now, pc, cur,
                   ok_count, err_count, hist>>

\* run after walker.run has joined every worker: print both counters, Ok(()).
Summary ==
    /\ phase = "walking"
    /\ \A w \in Workers : pc[w] = "stopped"
    /\ phase' = "done"
    /\ summary' = <<ok_count, err_count>>
    /\ UNCHANGED <<run, first, args, tree, fs, pending, bulk, quit_now, pc, cur,
                   ok_count, err_count, hist>>

Next ==
    \/ BuildWalker
    \/ \E w \in Workers, e \in Universe \cup {Root}, spawn_ok \in BOOLEAN :
           Visit(w, e, spawn_ok)
    \/ \E w \in Workers, success \in BOOLEAN, wrote \in BOOLEAN, rm_ok \in BOOLEAN :
           ProcessExit(w, success, wrote, rm_ok)
    \/ \E w \in Workers : WorkerExit(w)
    \/ Summary

Spec == Init /\ [][Next]_vars

\* ------------------------------------------------ fair scheduling (SpecFair)
\* The operating system schedules every worker thread and the main thread, so
\* a step that stays possible is eventually taken; every spawned ffmpeg
\* process eventually exits.
Fairness ==
    /\ WF_vars(BuildWalker)
    /\ \A w \in Workers :
           /\ WF_vars(\E e \in Universe \cup {Root}, spawn_ok \in BOOLEAN :
                          Visit(w, e, spawn_ok))
           /\ WF_vars(\E success \in BOOLEAN, wrote \in BOOLEAN, rm_ok \in BOOLEAN :
                          ProcessExit(w, success, wrote, rm_ok))
           /\ WF_vars(WorkerExit(w))
    /\ WF_vars(Summary)

\* The runs of SpecFair: sources mp3 and wav (or the type name the walker
\* rejects) converted to opus without preserve-files, over two matched files,
\* an entry carrying an error, an error yielded by the walker and a directory.
InitFair ==
    /\ Init
    /\ ~args.preserve_files
    /\ args.output = "opus"
    /\ args.inputs \in {{"mp3", "wav"}, {"all"}}
    /\ \A e \in tree : e.path \in {<<"a", ".", "mp3">>, <<"a", ".", "wav">>,
                                    <<"e", ".", "mp3">>, <<"u">>, <<"d">>}

SpecFair == InitFair /\ [][Next]_vars /\ Fairness

\* ------------------------------------------------- a long dry run (SpecLong)
\* A target directory holding BulkFiles matched regular files and nothing
\* else, walked in dry-run mode.  The files are not told apart: bulk counts
\* the ones the walker has not yielded yet.

BulkEntry == [path |-> <<"a", ".", "mp3">>, kind |-> "file"]

InitLong ==
    /\ args \in {a \in ArgsDomain : a.dry_run /\ a.inputs = {"mp3"} /\ a.output = "opus"}
    /\ tree = {}
    /\ fs = {}
    /\ phase = "start"
    /\ pending = {}
    /\ bulk = BulkFiles
    /\ quit_now = FALSE
    /\ pc = [w \in Workers |-> "idle"]
    /\ cur = [w \in Workers |-> <<>>]
    /\ ok_count = 0
    /\ err_count = 0
    /\ summary = <<>>
    /\ hist = [p \in {Root.path} |-> NoHist]
    /\ run = 1
    /\ first = <<>>

\* The walker yields one of the unnamed files to idle worker w once the target
\* directory itself has been visited; in dry-run mode the callback returns
\* without blocking.
VisitBulk(w) ==
    LET out == callback_begin(BulkEntry, TRUE)
    IN  /\ phase = "walking"
        /\ pc[w] = "idle"
        /\ ~quit_now
        /\ hist[Root.path].walkState = "Continue"
        /\ bulk > 0
        /\ out # "blocked"
        /\ bulk' = bulk - 1
        /\ Returns(w, arm_of(out))
        /\ UNCHANGED <<run, first, args, tree, fs, phase, pending, cur, summary, hist>>

NextLong ==
    \/ BuildWalker
    \/ \E w \in Workers : Visit(w, Root, TRUE)
    \/ \E w \in Workers : VisitBulk(w)
    \/ \E w \in Workers : WorkerExit(w)
    \/ Summary

SpecLong == InitLong /\ [][NextLong]_vars

\* --------------------------------------- a second run of the tool (SpecRerun)
\* The tool is run live without preserve_files over a directory of fewer than
\* MaxEntries regular files with an extension, and when it has finished it is run again over the same
\* directory with the same arguments.

InitRerun ==
    /\ Init
    /\ ~args.dry_run
    /\ ~args.preserve_files
    /\ Cardinality(tree) < MaxEntries
    /\ \A e \in tree : e.kind = "file" /\ ext_dot(e.path) # 0

\* main is started again: a new Converter (counters 0) over the directory as
\* the first run left it: the regular files now on disk and the entries that
\* are not regular files.
Rerun ==
    /\ phase = "done"
    /\ run = 1
    /\ run' = 2
    /\ first' = [p \in Paths |->
                    [status |-> hist[p].status, removed |-> hist[p].removed,
                     outcome |-> hist[p].outcome]]
    /\ tree' = {[path |-> p, kind |-> "file"] : p \in fs}
                    \cup {e \in tree : e.kind # "file"}
    /\ phase' = "start"
    /\ pending' = {}
    /\ quit_now' = FALSE
    /\ pc' = [w \in Workers |-> "idle"]
    /\ cur' = [w \in Workers |-> <<>>]
    /\ ok_count' = 0
    /\ err_count' = 0
    /\ summary' = <<>>
    /\ hist' = [p \in Paths \cup fs |-> NoHist]
    /\ UNCHANGED <<args, fs, bulk>>

NextRerun ==
    \/ BuildWalker
    \/ \E w \in Workers, e \in pending, spawn_ok \in BOOLEAN :
           Visit(w, e, spawn_ok)
    \/ \E w \in Workers, success \in BOOLEAN, wrote \in BOOLEAN, rm_ok \in BOOLEAN :
           ProcessExit(w, success, wrote, rm_ok)
    \/ \E w \in Workers : WorkerExit(w)
    \/ Summary
    \/ Rerun

SpecRerun == InitRerun /\ [][NextRerun]_vars

\* What the first run did with each entry.
FirstRun == IF run = 1 THEN hist ELSE first

\* ------------------------------------------------------ history measures

Wrap(n) == n % (2 ^ CounterBits)

KindOf(p) == IF p = Root.path THEN "dir" ELSE (CHOOSE e \in Universe : e.path = p).kind

Failures == {"spawn_failed", "exit_failed", "remove_failed"}

\* Entries whose callback has returned, by outcome.
Converted == {p \in Paths : hist[p].outcome = "converted"}
Failed == {p \in Paths : hist[p].outcome \in Failures}
TraversalErrors == {p \in Paths : hist[p].outcome = "trav_error"}

\* Files handed to try_convert_path, and those still blocked on ffmpeg.
Dispatched == {p \in Paths : hist[p].invoked > 0}
InFlight == {cur[w] : w \in {v \in Workers : pc[v] = "running"}}

\* name.<ext> for the file name.<s> at path p, computed from the name alone.
Sibling(p, ext) == SubSeq(p, 1, Len(p) - 2) \o <<".", ext>>

\* ------------------------------------------------------------------ claims

\* C1: a source file has been deleted by the tool (it was removed by a
\* callback, or it is a file of the tree that is gone from the disk) only if
\* dry_run is false, preserve_files is false and the ffmpeg process run on that
\* file exited successfully.
C1_DeletedOnlyAfterSuccess ==
    \A p \in Paths :
        (hist[p].removed > 0 \/ p \in InitialFs \ fs) =>
            /\ ~args.dry_run
            /\ ~args.preserve_files
            /\ hist[p].status = "success"

C1_Witness ==
    \E p \in InitialFs : p \notin fs /\ hist[p].removed = 1

\* C2 (as claimed): whenever the conversion of a matched regular file failed
\* because ffmpeg could not be spawned or exited non-zero, the callback
\* returned Continue for that file.
C2_FailedConversionContinues ==
    \A p \in Paths :
        hist[p].outcome \in {"spawn_failed", "exit_failed"} =>
            hist[p].walkState = "Continue"

\* C3: a step in which the ffmpeg process of a file exits non-zero adds exactly
\* one to the error counter, leaves the converted counter alone and removes
\* nothing; and a file whose process exited non-zero is never removed by the
\* tool and stays on disk.
C3_NonZeroExit ==
    /\ [](\A p \in Paths :
            hist[p].status = "failure" =>
                /\ hist[p].removed = 0
                /\ p \in fs
                /\ hist[p].outcome = "exit_failed")
    /\ [][\A w \in Workers, wrote \in BOOLEAN, rm_ok \in BOOLEAN :
            ProcessExit(w, FALSE, wrote, rm_ok) =>
                /\ err_count' = err_count + 1
                /\ ok_count' = ok_count
                /\ cur[w] \in fs'
                /\ hist'[cur[w]].removed = 0]_vars

C3_Witness ==
    \E p \in Paths :
        /\ hist[p].status = "failure"
        /\ args.preserve_files
        /\ err_count > 0

C6_SummaryCountsDispatched ==
    phase = "done" => summary[1] + summary[2] = Cardinality(Dispatched)

\* C6 (amended): the converted number of the summary is the number of
\* dispatched files reported converted and the error number is the number of
\* failed conversions plus the number of traversal-level errors (an Err, an
\* entry carrying an error, an entry without file type), each modulo the
\* counter width; every dispatched file is in exactly one of the two.
C6_SummaryCountsOutcomes ==
    phase = "done" =>
        /\ summary[1] = Wrap(Cardinality(Converted))
        /\ summary[2] = Wrap(Cardinality(Failed) + Cardinality(TraversalErrors))
        /\ Dispatched = Converted \cup Failed
        /\ Converted \cap Failed = {}

C6_Witness ==
    /\ phase = "done"
    /\ Cardinality(Converted) = 1
    /\ Cardinality(TraversalErrors) = 1
    /\ summary = <<1, 1>>

\* C7: at every moment of the walk, under every interleaving, the converted
\* counter is the number of outcomes reported as success and the error counter
\* is the number of outcomes reported as failure (failed conversions and
\* traversal errors), modulo the counter width: each outcome is counted once,
\* in one counter.
C7_EachOutcomeCountedOnce ==
    /\ ok_count = Wrap(Cardinality(Converted))
    /\ err_count = Wrap(Cardinality(Failed) + Cardinality(TraversalErrors))

C7_Witness ==
    /\ ~args.dry_run
    /\ Cardinality(Converted) = 1
    /\ Cardinality(Failed) = 2
    /\ ok_count = 1
    /\ err_count = 2

\* C8: no file is handed to try_convert_path twice, no entry is yielded twice,
\* and two workers never have an ffmpeg process in flight on the same file.
C8_ConvertedAtMostOnce ==
    /\ \A p \in Paths : hist[p].invoked <= 1 /\ hist[p].visits <= 1 /\ hist[p].spawned <= 1
    /\ \A w, v \in Workers :
           (w # v /\ pc[w] = "running" /\ pc[v] = "running") => cur[w] # cur[v]

C8_Witness ==
    /\ \A w \in Workers : pc[w] = "running"
    /\ Cardinality(InFlight) = NumThreads

\* C9 (as claimed): no step makes the converted counter or the error counter
\* smaller.
C9_CountersNeverDecrease ==
    [][ok_count' >= ok_count /\ err_count' >= err_count]_vars

\* C10 (as claimed): when the callback is run on a successfully yielded entry
\* that is a directory or has no file type, it returns Continue and changes
\* neither counter.
C10_TypelessEntryContinues ==
    [][\A w \in Workers, e \in Universe \cup {Root}, spawn_ok \in BOOLEAN :
            (e.kind \in {"dir", "no_type"} /\ Visit(w, e, spawn_ok)) =>
                /\ hist'[e.path].walkState = "Continue"
                /\ ok_count' = ok_count
                /\ err_count' = err_count]_vars

\* C11: the callback run on a traversal-level error (an Err yielded by the
\* walker, or an entry carrying an error) adds exactly one to the error
\* counter, leaves the converted counter and the disk alone, and returns Quit,
\* which sets the walker's stop flag; such an entry is never handed to
\* try_convert_path and nothing is spawned or removed for it.
C11_TraversalErrorQuits ==
    /\ [](\A p \in Paths :
            (KindOf(p) \in {"walk_err", "entry_err"} /\ hist[p].visits > 0) =>
                /\ hist[p].outcome = "trav_error"
                /\ hist[p].walkState = "Quit"
                /\ hist[p].visits = 1
                /\ hist[p].invoked = 0 /\ hist[p].spawned = 0 /\ hist[p].removed = 0
                /\ quit_now)
    /\ [][\A p \in Paths :
            (KindOf(p) \in {"walk_err", "entry_err"} /\ hist'[p].visits # hist[p].visits) =>
                /\ err_count' = err_count + 1
                /\ ok_count' = ok_count
                /\ fs' = fs
                /\ \A q \in Paths : hist'[q].removed = hist[q].removed]_vars

C11_Witness ==
    /\ hist[<<"e", ".", "mp3">>].walkState = "Quit"
    /\ err_count = 1
    /\ ok_count = 1
    /\ pending # {}
    /\ phase = "done"

\* C12: try_convert_path has been invoked, a process spawned or a file
\* removed only for entries whose file type is regular file.
C12_OnlyRegularFilesConverted ==
    \A p \in Paths :
        (hist[p].invoked > 0 \/ hist[p].spawned > 0 \/ hist[p].removed > 0
            \/ hist[p].status # "none" \/ p \in InFlight) =>
            KindOf(p) = "file"

C12_Witness ==
    /\ hist[<<"d">>].visits = 1
    /\ hist[<<"n", ".", "mp3">>].visits = 1
    /\ \E p \in Paths : KindOf(p) = "file" /\ hist[p].spawned = 1

C14_RunFailsOnlyBeforeWalk ==
    /\ phase \in {"walking", "done"} => \A input \in args.inputs : valid_type(input)
    /\ phase = "done" =>
           /\ summary = <<ok_count, err_count>>
           /\ \A w \in Workers : pc[w] = "stopped"
    /\ phase = "failed" =>
           /\ \E input \in args.inputs : ~valid_type(input)
           /\ \A p \in Paths : hist[p] = NoHist
           /\ fs = InitialFs
           /\ pending = {}
           /\ summary = <<>>
           /\ ok_count = 0 /\ err_count = 0
    /\ phase # "done" => summary = <<>>

C14_Witness ==
    /\ phase = "done"
    /\ summary = <<0, 2>>
    /\ Cardinality(Failed) = 2

ProcessOutcomes == {"converted", "exit_failed", "remove_failed"}

\* C16: once a callback has returned Quit, a conversion in flight on another
\* worker is not cut short: the worker stays blocked on its process until the
\* process ends in an outcome of its own, which is counted once and, on
\* success without preserve-files, removes the source; the summary is printed
\* with no conversion in flight, every spawned process has its outcome by
\* then, and the printed numbers include the outcomes that came after the
\* Quit.
C16_InFlightRunToOutcome ==
    /\ [](phase = "done" =>
            /\ InFlight = {}
            /\ \A w \in Workers : pc[w] = "stopped"
            /\ \A p \in Paths : hist[p].spawned > 0 => hist[p].outcome \in ProcessOutcomes
            /\ summary[1] = Wrap(Cardinality(Converted))
            /\ summary[2] = Wrap(Cardinality(Failed) + Cardinality(TraversalErrors)))
    /\ [][\A w \in Workers :
            (quit_now /\ pc[w] = "running") =>
                \/ pc'[w] = "running" /\ cur'[w] = cur[w]
                \/ LET p == cur[w]
                   IN  /\ hist'[p].late
                       /\ hist'[p].outcome \in ProcessOutcomes
                       /\ (hist'[p].outcome = "converted" /\ ~args.preserve_files) =>
                              (hist'[p].removed = hist[p].removed + 1 /\ p \notin fs')
                       /\ IF hist'[p].outcome = "converted"
                          THEN ok_count' = Wrap(ok_count + 1) /\ err_count' = err_count
                          ELSE err_count' = Wrap(err_count + 1) /\ ok_count' = ok_count]_vars

C16_Witness ==
    /\ phase = "done"
    /\ ~args.preserve_files
    /\ summary = <<1, 1>>
    /\ \E p \in Paths :
           /\ hist[p].late
           /\ hist[p].outcome = "converted"
           /\ hist[p].removed = 1
           /\ p \notin fs

\* Entries whose callback returned Quit.
Quits == {p \in Paths : hist[p].walkState = "Quit"}

\* C18: the error counter moves only in a callback that returns Quit and a
\* worker whose callback returned Quit takes no further entry, so the error
\* counter equals the number of callbacks that returned Quit, never exceeds
\* the number of worker threads, and the stop flag is set exactly when the
\* error counter is at least one; the printed error number obeys the same.
C18_ErrorsBoundedByThreads ==
    /\ err_count = Cardinality(Quits)
    /\ err_count <= NumThreads
    /\ quit_now <=> err_count >= 1
    /\ phase = "done" =>
           /\ summary[2] <= NumThreads
           /\ quit_now <=> summary[2] >= 1

C18_Witness ==
    /\ phase = "done"
    /\ quit_now
    /\ summary[2] = NumThreads
    /\ pending # {}

\* The path ffmpeg is told to write for source p.
OutputOf(p) == with_extension(p, args.output)

\* The name of p without its extension, read off the name: the part before
\* ".<ext>" when the name ends so, the whole name otherwise (a name that is
\* only ".<ext>" has no extension).
file_stem(p) ==
    IF Len(p) >= 3 /\ p[Len(p) - 1] = "." THEN SubSeq(p, 1, Len(p) - 2) ELSE p

\* C19 (as claimed): for every configuration, two conversions in flight at
\* the same time never write the same output path, and the output path of a
\* dispatched file is never the source path of another dispatched file.
C19_NoOutputCollision ==
    /\ \A w, v \in Workers :
           (w # v /\ pc[w] = "running" /\ pc[v] = "running") =>
               OutputOf(cur[w]) # OutputOf(cur[v])
    /\ \A p, q \in Dispatched : p # q => OutputOf(p) # q

\* C19 (amended): the same, when the target extension is not one of the
\* source extensions and no two dispatched files have the same name up to the
\* extension.
C19_NoOutputCollisionAmended ==
    (/\ args.output \notin args.inputs
     /\ \A p, q \in Dispatched : p # q => file_stem(p) # file_stem(q))
        => C19_NoOutputCollision

C19_Witness ==
    /\ args.output \notin args.inputs
    /\ \A w \in Workers : pc[w] = "running"
    /\ \E w, v \in Workers :
           /\ cur[w] = <<"a", ".", "mp3">>
           /\ cur[v] = <<".", "mp3">>
           /\ OutputOf(cur[w]) # OutputOf(cur[v])

\* C17 (as claimed): with a finite tree, every spawned process exiting and
\* fair scheduling, every run eventually prints the summary.
C17_ReachesSummary == <>(phase = "done")

\* C17 (amended): under the same assumptions every run ends, and every run
\* whose walker was built eventually prints the summary, whether or not a
\* callback returned Quit; a run whose walker cannot be built ends with that
\* error and prints no summary.
C17_WalkReachesSummary ==
    /\ <>(phase \in {"done", "failed"})
    /\ (phase = "walking") ~> (phase = "done")
    /\ (phase = "walking" /\ quit_now) ~> (phase = "done")
    /\ [](phase = "failed" => summary = <<>>)

C17_Witness ==
    /\ phase = "done"
    /\ quit_now
    /\ pending # {}
    /\ \E p \in Paths : hist[p].spawned > 0 /\ hist[p].late /\ hist[p].status = "failure"

====
